---- MODULE Spec2Model ----
(***************************************************************************)
(* Frame processors of src/processors.py: SentenceAggregator,              *)
(* ConversationProcessor, StoryImageProcessor and StoryProcessor.          *)
(*                                                                         *)
(* A Python str is a sequence of one-character strings, so that the        *)
(* regular expressions of the code are computed character by character.    *)
(* Every processor keeps, beside its own fields, a log of the frames it    *)
(* received (x_in) and of the frames it pushed downstream (x_out); a       *)
(* pushed frame is logged with the value the processor's buffer had at     *)
(* the moment of the push.                                                 *)
(***************************************************************************)
EXTENDS Integers, Sequences, FiniteSets, TLC

VARIABLES sa_aggregation, sa_in, sa_out,
          cp_messages, cp_aggregation, cp_in, cp_out, cp_ret,
          ip_pc, ip_clock, ip_prompt, ip_made, ip_calls, ip_err, ip_in, ip_out,
          sp_text, sp_story, sp_err, sp_in, sp_out

sa_vars == <<sa_aggregation, sa_in, sa_out>>
cp_vars == <<cp_messages, cp_aggregation, cp_in, cp_out, cp_ret>>
ip_vars == <<ip_pc, ip_clock, ip_prompt, ip_made, ip_calls, ip_err, ip_in, ip_out>>
sp_vars == <<sp_text, sp_story, sp_err, sp_in, sp_out>>
vars == <<sa_vars, cp_vars, ip_vars, sp_vars>>

(***************************************************************************)
(* Strings                                                                 *)
(***************************************************************************)
NL == "\n"

EmptyStr == <<>>

MinOf(S) == CHOOSE x \in S : \A y \in S : x <= y

MaxOf(S) == CHOOSE x \in S : \A y \in S : y <= x

\* s[from..] with s[from..from+Len(t)-1] = t
HasAt(s, t, from) ==
    /\ from >= 1
    /\ from + Len(t) - 1 <= Len(s)
    /\ \A k \in 1..Len(t) : s[from + k - 1] = t[k]

Contains(s, t) == \E i \in 1..(Len(s) + 1) : HasAt(s, t, i)

RECURSIVE Concat(_)
Concat(ss) == IF ss = <<>> THEN <<>> ELSE Head(ss) \o Concat(Tail(ss))

\* str.replace("\n", " ")
ReplaceNewlines(s) == [i \in 1..Len(s) |-> IF s[i] = NL THEN " " ELSE s[i]]

(***************************************************************************)
(* SentenceAggregator                                                      *)
(***************************************************************************)
\* the character class [?.!] of the pattern
Terminators == {"?", ".", "!"}

TermIdx(s) == {i \in 1..Len(s) : s[i] \in Terminators}

\* SentenceSearch with a first group that stops at the first terminator
SentenceSearchFirst(s) ==
    IF TermIdx(s) = {}
    THEN [found |-> FALSE, g1 |-> <<>>, g2 |-> <<>>]
    ELSE LET q1 == MinOf(TermIdx(s))
             p  == 1 + MaxOf({0} \cup {i \in 1..q1 : s[i] = NL})
             e  == MinOf({Len(s) + 1} \cup {i \in q1..Len(s) : s[i] = NL}) - 1
         IN  [found |-> TRUE, g1 |-> SubSeq(s, p, q1), g2 |-> SubSeq(s, q1 + 1, e)]

\* re.search("(.*[?.!])(.*)", s): "." matches no line break, so the leftmost
\* match starts at the start of the first line that holds a terminator; the
\* greedy first group runs to the last terminator of that line and the second
\* group takes the rest of the line.
SentenceSearch(s) ==
    IF TermIdx(s) = {}
    THEN [found |-> FALSE, g1 |-> <<>>, g2 |-> <<>>]
    ELSE LET q1 == MinOf(TermIdx(s))
             p  == 1 + MaxOf({0} \cup {i \in 1..q1 : s[i] = NL})
             e  == MinOf({Len(s) + 1} \cup {i \in q1..Len(s) : s[i] = NL}) - 1
             q  == MaxOf({i \in p..e : s[i] \in Terminators})
         IN  [found |-> TRUE, g1 |-> SubSeq(s, p, q), g2 |-> SubSeq(s, q + 1, e)]

MaxSAFrames == 3

SAChars == {"a", ".", "!", NL}

\* the text fragments delivered to the aggregator
SAFragments ==
    {<<>>} \cup {<<c>> : c \in SAChars} \cup {<<c, d>> : c \in SAChars, d \in SAChars}
    \cup {<<"a", ".", "a">>, <<"a", NL, "a", ".">>}
    \cup {<<".", "a", "!">>, <<".", NL, "!">>, <<NL, ".", "!">>}

TextFrame(s) == [type |-> "TextFrame", text |-> s]

\* a frame that is not a TextFrame (EndFrame, a start or stop signal, ...)
ControlFrame == [type |-> "ControlFrame", text |-> <<>>]

\* push_frame: the frame with the buffer as it is at the push
Pushed(frame, buffer) == [frame |-> frame, buf |-> buffer]

SAInit ==
    /\ sa_aggregation = EmptyStr
    /\ sa_in = <<>>
    /\ sa_out = <<>>

\* SAText pushing the match alone, without the text buffered before it
SATextDropsBuffer(s) ==
    LET m == SentenceSearch(s) IN
    /\ Len(sa_in) < MaxSAFrames
    /\ sa_in' = Append(sa_in, TextFrame(s))
    /\ IF m.found
       THEN /\ sa_out' = Append(sa_out, Pushed(TextFrame(m.g1), sa_aggregation))
            /\ sa_aggregation' = m.g2
       ELSE /\ sa_aggregation' = sa_aggregation \o s
            /\ sa_out' = sa_out
    /\ UNCHANGED <<cp_vars, ip_vars, sp_vars>>

\* SAText keeping the whole fragment in the buffer after the push
SATextKeepsFragment(s) ==
    LET m == SentenceSearch(s) IN
    /\ Len(sa_in) < MaxSAFrames
    /\ sa_in' = Append(sa_in, TextFrame(s))
    /\ IF m.found
       THEN /\ sa_out' = Append(sa_out,
                    Pushed(TextFrame(sa_aggregation \o m.g1), sa_aggregation))
            /\ sa_aggregation' = s
       ELSE /\ sa_aggregation' = sa_aggregation \o s
            /\ sa_out' = sa_out
    /\ UNCHANGED <<cp_vars, ip_vars, sp_vars>>

\* process_frame, isinstance(frame, TextFrame)
SAText(s) ==
    LET m == SentenceSearch(s) IN
    /\ Len(sa_in) < MaxSAFrames
    /\ sa_in' = Append(sa_in, TextFrame(s))
    /\ IF m.found
       THEN /\ sa_out' = Append(sa_out,
                    Pushed(TextFrame(sa_aggregation \o m.g1), sa_aggregation))
            /\ sa_aggregation' = m.g2
       ELSE /\ sa_aggregation' = sa_aggregation \o s
            /\ sa_out' = sa_out
    /\ UNCHANGED <<cp_vars, ip_vars, sp_vars>>

\* SAControl pushing the buffer without clearing it
SAControlKeepsBuffer ==
    /\ Len(sa_in) < MaxSAFrames
    /\ sa_in' = Append(sa_in, ControlFrame)
    /\ IF sa_aggregation # EmptyStr
       THEN sa_out' = sa_out \o
                    <<Pushed(TextFrame(sa_aggregation), sa_aggregation),
                      Pushed(ControlFrame, sa_aggregation)>>
       ELSE sa_out' = Append(sa_out, Pushed(ControlFrame, sa_aggregation))
    /\ sa_aggregation' = sa_aggregation
    /\ UNCHANGED <<cp_vars, ip_vars, sp_vars>>

\* process_frame, any other frame
SAControl ==
    /\ Len(sa_in) < MaxSAFrames
    /\ sa_in' = Append(sa_in, ControlFrame)
    /\ IF sa_aggregation # EmptyStr
       THEN /\ sa_out' = sa_out \o
                    <<Pushed(TextFrame(sa_aggregation), sa_aggregation),
                      Pushed(ControlFrame, EmptyStr)>>
            /\ sa_aggregation' = EmptyStr
       ELSE /\ sa_out' = Append(sa_out, Pushed(ControlFrame, sa_aggregation))
            /\ sa_aggregation' = sa_aggregation
    /\ UNCHANGED <<cp_vars, ip_vars, sp_vars>>

SATextStep == \E s \in SAFragments : SAText(s)

(***************************************************************************)
(* ConversationProcessor                                                   *)
(***************************************************************************)
MaxCPFrames == 4

UserIds == {<<"A">>, <<"B">>}

Utterances == {<<"h", "i">>, <<"y", "o">>}

Timestamps == {<<"1">>, <<"2">>}

UserStoppedSpeakingFrame == [type |-> "UserStoppedSpeakingFrame", text |-> <<>>]

TranscriptionFrame(u, s, ts) ==
    [type |-> "TranscriptionFrame", text |-> s, user_id |-> u, timestamp |-> ts]

LLMMessagesFrame(msgs) == [type |-> "LLMMessagesFrame", messages |-> msgs]

\* f"{entry['timestamp']} - {entry['user_id']}: {entry['text']}"
FormatEntry(entry) ==
    entry.timestamp \o <<" ", "-", " ">> \o entry.user_id \o <<":", " ">> \o entry.text

\* "\n".join(lines)
RECURSIVE JoinLines(_)
JoinLines(lines) ==
    IF lines = <<>> THEN <<>>
    ELSE IF Len(lines) = 1 THEN Head(lines)
    ELSE Head(lines) \o <<NL>> \o JoinLines(Tail(lines))

format_aggregation(aggregation) ==
    JoinLines([i \in 1..Len(aggregation) |-> FormatEntry(aggregation[i])])

\* what a caller holds from its latest accessor call: the list object returned
\* is the history itself (alias) or a list of its own (list), whose first
\* "shared" elements are the turn objects of the history from index from + 1 on
NoReturn ==
    [call |-> "none", n |-> 0, alias |-> FALSE, list |-> <<>>,
     from |-> 0, shared |-> 0, edited |-> FALSE]

CPInit ==
    /\ cp_messages = <<>>
    /\ cp_aggregation = <<>>
    /\ cp_in = <<>>
    /\ cp_out = <<>>
    /\ cp_ret = NoReturn

\* push_aggregation resetting the entry buffer before it is rendered
push_aggregation_ResetFirst ==
    IF Len(cp_aggregation) > 0
    THEN /\ cp_aggregation' = <<>>
         /\ cp_messages' = Append(cp_messages,
                [role |-> "user", content |-> format_aggregation(cp_aggregation')])
         /\ cp_out' = Append(cp_out, Pushed(LLMMessagesFrame(cp_messages'), cp_aggregation'))
    ELSE UNCHANGED <<cp_messages, cp_aggregation, cp_out>>

\* _push_aggregation
push_aggregation ==
    IF Len(cp_aggregation) > 0
    THEN /\ cp_messages' = Append(cp_messages,
                [role |-> "user", content |-> format_aggregation(cp_aggregation)])
         /\ cp_aggregation' = <<>>
         /\ cp_out' = Append(cp_out, Pushed(LLMMessagesFrame(cp_messages'), cp_aggregation'))
    ELSE UNCHANGED <<cp_messages, cp_aggregation, cp_out>>

\* process_frame, UserStoppedSpeakingFrame
CPUserStopped ==
    /\ Len(cp_in) < MaxCPFrames
    /\ cp_in' = Append(cp_in, UserStoppedSpeakingFrame)
    /\ push_aggregation
    /\ UNCHANGED cp_ret
    /\ UNCHANGED <<sa_vars, ip_vars, sp_vars>>

\* process_frame, TranscriptionFrame
CPTranscription(u, s, ts) ==
    /\ Len(cp_in) < MaxCPFrames
    /\ cp_in' = Append(cp_in, TranscriptionFrame(u, s, ts))
    /\ cp_aggregation' = Append(cp_aggregation,
            [user_id |-> u, text |-> s, timestamp |-> ts])
    /\ UNCHANGED <<cp_messages, cp_out, cp_ret>>
    /\ UNCHANGED <<sa_vars, ip_vars, sp_vars>>

\* CPLLMMessages recording the model's messages as a turn of the history
CPLLMMessagesRecorded ==
    /\ Len(cp_in) < MaxCPFrames
    /\ cp_in' = Append(cp_in, LLMMessagesFrame(cp_messages))
    /\ cp_messages' = Append(cp_messages, [role |-> "assistant", content |-> EmptyStr])
    /\ UNCHANGED <<cp_aggregation, cp_out, cp_ret>>
    /\ UNCHANGED <<sa_vars, ip_vars, sp_vars>>

\* process_frame, LLMMessagesFrame: logged only
CPLLMMessages ==
    /\ Len(cp_in) < MaxCPFrames
    /\ cp_in' = Append(cp_in, LLMMessagesFrame(cp_messages))
    /\ UNCHANGED <<cp_messages, cp_aggregation, cp_out, cp_ret>>
    /\ UNCHANGED <<sa_vars, ip_vars, sp_vars>>

\* process_frame, any other frame
CPOther ==
    /\ Len(cp_in) < MaxCPFrames
    /\ cp_in' = Append(cp_in, ControlFrame)
    /\ cp_out' = Append(cp_out, Pushed(ControlFrame, cp_aggregation))
    /\ UNCHANGED <<cp_messages, cp_aggregation, cp_ret>>
    /\ UNCHANGED <<sa_vars, ip_vars, sp_vars>>

\* push_aggregation_cancelled resetting the entry buffer after the push, which
\* the cancellation cuts off
push_aggregation_cancelled_ResetLast ==
    /\ Len(cp_aggregation) > 0
    /\ cp_messages' = Append(cp_messages,
            [role |-> "user", content |-> format_aggregation(cp_aggregation)])
    /\ cp_aggregation' = cp_aggregation
    /\ \/ cp_out' = cp_out
       \/ cp_out' = Append(cp_out, Pushed(LLMMessagesFrame(cp_messages'), cp_aggregation))

\* _push_aggregation, the task cancelled while it awaits push_frame: the turn is
\* appended and the entry buffer reset, the frame has reached the next
\* processor or not
push_aggregation_cancelled ==
    /\ Len(cp_aggregation) > 0
    /\ cp_messages' = Append(cp_messages,
            [role |-> "user", content |-> format_aggregation(cp_aggregation)])
    /\ cp_aggregation' = <<>>
    /\ \/ cp_out' = cp_out
       \/ cp_out' = Append(cp_out, Pushed(LLMMessagesFrame(cp_messages'), cp_aggregation'))

\* process_frame, UserStoppedSpeakingFrame, cancelled in _push_aggregation
CPUserStoppedCancelled ==
    /\ Len(cp_in) < MaxCPFrames
    /\ cp_in' = Append(cp_in, UserStoppedSpeakingFrame)
    /\ push_aggregation_cancelled
    /\ UNCHANGED cp_ret
    /\ UNCHANGED <<sa_vars, ip_vars, sp_vars>>

\* the list a caller holds
Returned == IF cp_ret.alias THEN cp_messages ELSE cp_ret.list

\* list[i:], Python's slice with a start index only
SliceFrom(list, i) ==
    LET start == IF i < 0 THEN MaxOf({0, Len(list) + i}) ELSE MinOf({i, Len(list)})
    IN  SubSeq(list, start + 1, Len(list))

\* the largest argument of get_last_n_entries
MaxN == 2

\* the longest list a caller builds by appending to what it was returned
MaxReturnedLen == 3

\* the turn a caller writes into a list it was returned
CallerTurn == [role |-> "assistant", content |-> <<"x">>]

\* get_conversation_history: returns self._messages, the history list itself
CPGetHistory ==
    /\ cp_ret' = [call |-> "get_conversation_history", n |-> 0, alias |-> TRUE,
                  list |-> <<>>, from |-> 0, shared |-> 0, edited |-> FALSE]
    /\ UNCHANGED <<cp_messages, cp_aggregation, cp_in, cp_out>>
    /\ UNCHANGED <<sa_vars, ip_vars, sp_vars>>

\* get_last_n_entries(n): returns self._messages[-n:], a new list of the same
\* turn objects
CPGetLastN(n) ==
    LET slice == SliceFrom(cp_messages, 0 - n) IN
    /\ cp_ret' = [call |-> "get_last_n_entries", n |-> n, alias |-> FALSE,
                  list |-> slice, from |-> Len(cp_messages) - Len(slice),
                  shared |-> Len(slice), edited |-> FALSE]
    /\ UNCHANGED <<cp_messages, cp_aggregation, cp_in, cp_out>>
    /\ UNCHANGED <<sa_vars, ip_vars, sp_vars>>

\* the caller appends a turn to the list it was returned
CPCallerAppend ==
    /\ cp_ret.call # "none"
    /\ Len(Returned) < MaxReturnedLen
    /\ IF cp_ret.alias
       THEN /\ cp_messages' = Append(cp_messages, CallerTurn)
            /\ cp_ret' = [cp_ret EXCEPT !.edited = TRUE]
       ELSE /\ cp_ret' = [cp_ret EXCEPT !.list = Append(@, CallerTurn), !.edited = TRUE]
            /\ cp_messages' = cp_messages
    /\ UNCHANGED <<cp_aggregation, cp_in, cp_out>>
    /\ UNCHANGED <<sa_vars, ip_vars, sp_vars>>

\* the caller sets the content of the first turn of the list it was returned
CPCallerSetContent ==
    /\ cp_ret.call # "none"
    /\ Len(Returned) >= 1
    /\ Returned[1].content # CallerTurn.content
    /\ IF cp_ret.alias
       THEN /\ cp_messages' = [cp_messages EXCEPT ![1].content = CallerTurn.content]
            /\ cp_ret' = [cp_ret EXCEPT !.edited = TRUE]
       ELSE /\ cp_ret' = [cp_ret EXCEPT !.list[1].content = CallerTurn.content,
                                        !.edited = TRUE]
            /\ IF cp_ret.shared >= 1
               THEN cp_messages' =
                      [cp_messages EXCEPT ![cp_ret.from + 1].content = CallerTurn.content]
               ELSE cp_messages' = cp_messages
    /\ UNCHANGED <<cp_aggregation, cp_in, cp_out>>
    /\ UNCHANGED <<sa_vars, ip_vars, sp_vars>>

CPGetLastNStep == \E n \in 0..MaxN : CPGetLastN(n)

CPTranscriptionStep ==
    \E u \in UserIds, s \in Utterances, ts \in Timestamps : CPTranscription(u, s, ts)

(***************************************************************************)
(* StoryImageProcessor                                                     *)
(*                                                                         *)
(* process_frame awaits the image backend inside "async with timeout(7)",  *)
(* so the call is a process of its own: it starts (IPImage), the backend   *)
(* yields images one by one (IPYield), time passes (IPTick), and the call  *)
(* ends when the backend's generator is exhausted (IPFinish) or when the   *)
(* deadline cancels it (IPTimeout).  The processor takes its next frame    *)
(* only when the call has returned.  The timeout's exception is caught by  *)
(* "except TimeoutError" (asyncio.TimeoutError is the builtin TimeoutError *)
(* from Python 3.11 on).                                                   *)
(***************************************************************************)
MaxIPFrames == 2

\* the most images the backend yields in one call
MaxImages == 2

\* timeout(7)
Deadline == 7

ImagePrompts == {<<"a">>, <<"b">>}

StoryImageFrame(s) == [type |-> "StoryImageFrame", text |-> s]

\* IMAGE_GEN_PROMPT % frame.text
FormatImagePrompt(s) == <<"IMAGE_GEN_PROMPT", "%">> \o s

\* the n-th image the backend yields for a prompt
ImageFrame(prompt, n) == [type |-> "ImageFrame", text |-> prompt, n |-> n]

IPInit ==
    /\ ip_pc = "idle"
    /\ ip_clock = 0
    /\ ip_prompt = <<>>
    /\ ip_made = <<>>
    /\ ip_calls = <<>>
    /\ ip_err = "none"
    /\ ip_in = <<>>
    /\ ip_out = <<>>

\* process_frame, StoryImageFrame: enter the timeout block, call the backend
IPImage(s) ==
    /\ ip_pc = "idle"
    /\ Len(ip_in) < MaxIPFrames
    /\ ip_in' = Append(ip_in, StoryImageFrame(s))
    /\ ip_pc' = "running"
    /\ ip_clock' = 0
    /\ ip_prompt' = FormatImagePrompt(s)
    /\ ip_calls' = Append(ip_calls, [made |-> 0, end |-> "running"])
    /\ ip_err' = "none"
    /\ UNCHANGED <<ip_made, ip_out>>
    /\ UNCHANGED <<sa_vars, cp_vars, sp_vars>>

ThisCall == ip_calls[Len(ip_calls)]

\* async for i in run_image_gen(...): await self.push_frame(i)
IPYield ==
    /\ ip_pc = "running"
    /\ ip_clock < Deadline
    /\ ThisCall.made < MaxImages
    /\ LET i == ImageFrame(ip_prompt, ThisCall.made + 1) IN
         /\ ip_made' = Append(ip_made, i)
         /\ ip_out' = Append(ip_out, Pushed(i, <<>>))
    /\ ip_calls' = [ip_calls EXCEPT ![Len(ip_calls)].made = @ + 1]
    /\ UNCHANGED <<ip_pc, ip_clock, ip_prompt, ip_err, ip_in>>
    /\ UNCHANGED <<sa_vars, cp_vars, sp_vars>>

\* one time unit passes while the call waits for the backend
IPTick ==
    /\ ip_pc = "running"
    /\ ip_clock < Deadline
    /\ ip_clock' = ip_clock + 1
    /\ UNCHANGED <<ip_pc, ip_prompt, ip_made, ip_calls, ip_err, ip_in, ip_out>>
    /\ UNCHANGED <<sa_vars, cp_vars, sp_vars>>

\* the backend's generator is exhausted before the deadline
IPFinish ==
    /\ ip_pc = "running"
    /\ ip_clock < Deadline
    /\ ip_pc' = "idle"
    /\ ip_calls' = [ip_calls EXCEPT ![Len(ip_calls)].end = "finished"]
    /\ UNCHANGED <<ip_clock, ip_prompt, ip_made, ip_err, ip_in, ip_out>>
    /\ UNCHANGED <<sa_vars, cp_vars, sp_vars>>

\* IPTimeout with the timeout's exception not caught
IPTimeoutUncaught ==
    /\ ip_pc = "running"
    /\ ip_clock = Deadline
    /\ ip_pc' = "idle"
    /\ ip_err' = "TimeoutError"
    /\ ip_calls' = [ip_calls EXCEPT ![Len(ip_calls)].end = "timeout"]
    /\ UNCHANGED <<ip_clock, ip_prompt, ip_made, ip_in, ip_out>>
    /\ UNCHANGED <<sa_vars, cp_vars, sp_vars>>

\* the deadline cancels the block: except TimeoutError: pass
IPTimeout ==
    /\ ip_pc = "running"
    /\ ip_clock = Deadline
    /\ ip_pc' = "idle"
    /\ ip_err' = "none"
    /\ ip_calls' = [ip_calls EXCEPT ![Len(ip_calls)].end = "timeout"]
    /\ UNCHANGED <<ip_clock, ip_prompt, ip_made, ip_in, ip_out>>
    /\ UNCHANGED <<sa_vars, cp_vars, sp_vars>>

\* process_frame, any other frame
IPOther(frame) ==
    /\ ip_pc = "idle"
    /\ Len(ip_in) < MaxIPFrames
    /\ ip_in' = Append(ip_in, frame)
    /\ ip_out' = Append(ip_out, Pushed(frame, <<>>))
    /\ ip_err' = "none"
    /\ UNCHANGED <<ip_pc, ip_clock, ip_prompt, ip_made, ip_calls>>
    /\ UNCHANGED <<sa_vars, cp_vars, sp_vars>>

IPImageStep == \E s \in ImagePrompts : IPImage(s)

IPOtherStep == \E frame \in {ControlFrame, TextFrame(<<"a">>)} : IPOther(frame)

(***************************************************************************)
(* StoryProcessor                                                          *)
(***************************************************************************)
MaxSPFrames == 3

\* len(self._text) > 2
MinPageLen == 2

\* re.IGNORECASE on the letters of the break token
Lower(c) ==
    CASE c = "B" -> "b"
      [] c = "R" -> "r"
      [] c = "E" -> "e"
      [] c = "A" -> "a"
      [] c = "K" -> "k"
      [] OTHER -> c

LowerStr(s) == [i \in 1..Len(s) |-> Lower(s[i])]

BreakLower == <<"[", "b", "r", "e", "a", "k", "]">>

BreakCapital == <<"[", "B", "r", "e", "a", "k", "]">>

BreakUpper == <<"[", "B", "R", "E", "A", "K", "]">>

\* re.search(r"<.*?>", s): the leftmost "<" that has a ">" after it on the same
\* line, up to the nearest such ">"
DirectiveStarts(s) ==
    {i \in 1..Len(s) :
        /\ s[i] = "<"
        /\ \E j \in (i + 1)..Len(s) :
             /\ s[j] = ">"
             /\ \A k \in (i + 1)..(j - 1) : s[k] # NL}

DirectiveSearch(s) ==
    IF DirectiveStarts(s) = {}
    THEN [found |-> FALSE, from |-> 0, to |-> 0]
    ELSE LET i == MinOf(DirectiveStarts(s))
             j == MinOf({k \in (i + 1)..Len(s) : s[k] = ">"})
         IN  [found |-> TRUE, from |-> i, to |-> j]

\* re.search(r"<(.*?)>", s).group(1)
DirectivePrompt(s) ==
    LET m == DirectiveSearch(s) IN SubSeq(s, m.from + 1, m.to - 1)

\* re.sub(r"<.*?>", '', s, count=1)
RemoveDirective(s) ==
    LET m == DirectiveSearch(s) IN SubSeq(s, 1, m.from - 1) \o SubSeq(s, m.to + 1, Len(s))

\* re.search(r".*\[[bB]reak\].*", s)
BreakSearch(s) == Contains(s, BreakLower) \/ Contains(s, BreakCapital)

\* re.sub(r'\[[bB]reak\]', '', s, flags=re.IGNORECASE): one pass, left to right
RECURSIVE RemoveBreaks(_)
RemoveBreaks(s) ==
    IF s = <<>> THEN <<>>
    ELSE IF Len(s) >= Len(BreakLower)
            /\ LowerStr(SubSeq(s, 1, Len(BreakLower))) = BreakLower
         THEN RemoveBreaks(SubSeq(s, Len(BreakLower) + 1, Len(s)))
         ELSE <<Head(s)>> \o RemoveBreaks(Tail(s))

StoryPageFrame(s) == [type |-> "StoryPageFrame", text |-> s]

StoryPromptFrame(s) == [type |-> "StoryPromptFrame", text |-> s]

LLMFullResponseEndFrame == [type |-> "LLMFullResponseEndFrame", text |-> <<>>]

\* DailyTransportMessageFrame(CUE_ASSISTANT_TURN), ...(CUE_USER_TURN)
CueFrame(cue) == [type |-> "DailyTransportMessageFrame", text |-> <<cue>>]

\* sounds["talking"], sounds["listening"]
SoundFrame(name) == [type |-> "AudioRawFrame", text |-> <<name>>]

\* the module's global names: line 24, which would bind "sounds", is a comment
SoundsDefined == FALSE

\* the text fragments delivered to the story processor
SPFragments ==
    { <<"<", "a">>,
      <<"b", ">">>,
      BreakLower,
      BreakCapital,
      BreakUpper,
      <<"O", "k", ".">>,
      <<"a", " ">>,
      <<" ", "a", " ">>,
      <<NL>>,
      <<"<", "a", ">", "<", "b", ">">>,
      <<"<", "a", "b", ">">> \o BreakLower \o <<"O", "k", ".">> \o BreakLower,
      <<"b", ">">> \o BreakLower \o <<"O", "k", ".">> \o BreakLower }

SPInit ==
    /\ sp_text = EmptyStr
    /\ sp_story = <<>>
    /\ sp_err = "none"
    /\ sp_in = <<>>
    /\ sp_out = <<>>

\* process_frame, UserStoppedSpeakingFrame
SPUserStopped ==
    /\ Len(sp_in) < MaxSPFrames
    /\ sp_in' = Append(sp_in, UserStoppedSpeakingFrame)
    /\ IF SoundsDefined
       THEN /\ sp_out' = sp_out \o <<Pushed(CueFrame("CUE_ASSISTANT_TURN"), sp_text),
                                     Pushed(SoundFrame("talking"), sp_text)>>
            /\ sp_err' = "none"
       ELSE /\ sp_out' = Append(sp_out, Pushed(CueFrame("CUE_ASSISTANT_TURN"), sp_text))
            /\ sp_err' = "NameError"
    /\ UNCHANGED <<sp_text, sp_story>>
    /\ UNCHANGED <<sa_vars, cp_vars, ip_vars>>

\* process_frame, TextFrame: the IMAGE PROMPT block, on the buffer t
\* (the nested test of line 229 only passes: it changes nothing)
ImageStage(t) ==
    IF DirectiveSearch(t).found
    THEN [text |-> RemoveDirective(t),
          out  |-> <<Pushed(StoryImageFrame(DirectivePrompt(t)), RemoveDirective(t))>>]
    ELSE [text |-> t, out |-> <<>>]

\* PageStage with the page length tested at ">= 2" instead of "> 2"
PageStageOffByOne(t) ==
    IF Contains(t, BreakLower) \/ Contains(t, BreakCapital)
    THEN LET page == ReplaceNewlines(RemoveBreaks(t)) IN
         IF Len(page) >= MinPageLen
         THEN [text |-> EmptyStr, story |-> <<page>>,
               out  |-> <<Pushed([type |-> "StoryPageFrame", text |-> page], page),
                          Pushed([type |-> "DailyTransportMessageFrame",
                                  text |-> <<"CUE_ASSISTANT_TURN">>], page)>>]
         ELSE [text |-> EmptyStr, story |-> <<>>, out |-> <<>>]
    ELSE [text |-> t, story |-> <<>>, out |-> <<>>]

\* PageStage pushing the page without appending it to the story
PageStageNotAppended(t) ==
    IF BreakSearch(t)
    THEN LET page == ReplaceNewlines(RemoveBreaks(t)) IN
         IF Len(page) > MinPageLen
         THEN [text |-> EmptyStr, story |-> <<>>,
               out  |-> <<Pushed(StoryPageFrame(page), page),
                          Pushed(CueFrame("CUE_ASSISTANT_TURN"), page)>>]
         ELSE [text |-> EmptyStr, story |-> <<>>, out |-> <<>>]
    ELSE [text |-> t, story |-> <<>>, out |-> <<>>]

\* process_frame, TextFrame: the STORY PAGE block, on the buffer t
PageStage(t) ==
    IF BreakSearch(t)
    THEN LET page == ReplaceNewlines(RemoveBreaks(t)) IN
         IF Len(page) > MinPageLen
         THEN [text |-> EmptyStr, story |-> <<page>>,
               out  |-> <<Pushed(StoryPageFrame(page), page),
                          Pushed(CueFrame("CUE_ASSISTANT_TURN"), page)>>]
         ELSE [text |-> EmptyStr, story |-> <<>>, out |-> <<>>]
    ELSE [text |-> t, story |-> <<>>, out |-> <<>>]

\* process_frame, TextFrame
SPText(s) ==
    LET img == ImageStage(sp_text \o s)
        pg  == PageStage(img.text)
    IN
    /\ Len(sp_in) < MaxSPFrames
    /\ sp_in' = Append(sp_in, TextFrame(s))
    /\ sp_text' = pg.text
    /\ sp_story' = sp_story \o pg.story
    /\ sp_out' = sp_out \o img.out \o pg.out
    /\ sp_err' = "none"
    /\ UNCHANGED <<sa_vars, cp_vars, ip_vars>>

\* process_frame, LLMFullResponseEndFrame
SPResponseEnd ==
    /\ Len(sp_in) < MaxSPFrames
    /\ sp_in' = Append(sp_in, LLMFullResponseEndFrame)
    /\ sp_text' = EmptyStr
    /\ IF SoundsDefined
       THEN /\ sp_out' = sp_out \o
                    <<Pushed(StoryPromptFrame(sp_text), sp_text),
                      Pushed(LLMFullResponseEndFrame, EmptyStr),
                      Pushed(CueFrame("CUE_USER_TURN"), EmptyStr),
                      Pushed(SoundFrame("listening"), EmptyStr)>>
            /\ sp_err' = "none"
       ELSE /\ sp_out' = sp_out \o
                    <<Pushed(StoryPromptFrame(sp_text), sp_text),
                      Pushed(LLMFullResponseEndFrame, EmptyStr),
                      Pushed(CueFrame("CUE_USER_TURN"), EmptyStr)>>
            /\ sp_err' = "NameError"
    /\ UNCHANGED sp_story
    /\ UNCHANGED <<sa_vars, cp_vars, ip_vars>>

\* SPOther taking the frame without pushing it
SPOtherDropped ==
    /\ Len(sp_in) < MaxSPFrames
    /\ sp_in' = Append(sp_in, ControlFrame)
    /\ sp_out' = sp_out
    /\ sp_err' = "none"
    /\ UNCHANGED <<sp_text, sp_story>>
    /\ UNCHANGED <<sa_vars, cp_vars, ip_vars>>

\* process_frame, any other frame
SPOther ==
    /\ Len(sp_in) < MaxSPFrames
    /\ sp_in' = Append(sp_in, ControlFrame)
    /\ sp_out' = Append(sp_out, Pushed(ControlFrame, sp_text))
    /\ sp_err' = "none"
    /\ UNCHANGED <<sp_text, sp_story>>
    /\ UNCHANGED <<sa_vars, cp_vars, ip_vars>>

SPTextStep == \E s \in SPFragments : SPText(s)

(***************************************************************************)
(* Specifications: one per processor, each on its own stream of frames     *)
(***************************************************************************)
Init == SAInit /\ CPInit /\ IPInit /\ SPInit

SANext == SATextStep \/ SAControl

SASpec == Init /\ [][SANext]_vars

CPNext == CPUserStopped \/ CPTranscriptionStep \/ CPLLMMessages \/ CPOther

CPSpec == Init /\ [][CPNext]_vars

\* the processor with the task cancelled in some of its pushes
CPCancelNext == CPNext \/ CPUserStoppedCancelled

CPCancelSpec == Init /\ [][CPCancelNext]_vars

\* the processor and a caller of its accessors
CPAccNext ==
    \/ CPUserStopped \/ CPTranscriptionStep
    \/ CPGetHistory \/ CPGetLastNStep \/ CPCallerAppend \/ CPCallerSetContent

CPAccSpec == Init /\ [][CPAccNext]_vars

IPNext == IPImageStep \/ IPYield \/ IPTick \/ IPFinish \/ IPTimeout \/ IPOtherStep

\* time passes, and the deadline fires when it is reached
IPSpec == Init /\ [][IPNext]_vars /\ WF_vars(IPTick) /\ WF_vars(IPTimeout)

SPNext == SPUserStopped \/ SPTextStep \/ SPResponseEnd \/ SPOther

SPSpec == Init /\ [][SPNext]_vars

\* the three processors of the pass-through rule side by side, each taking its
\* own frames, at most MaxPassFrames frames in all
MaxPassFrames == 3

PassFrames == Len(cp_in) + Len(ip_in) + Len(sp_in)

PassNext ==
    \/ PassFrames < MaxPassFrames /\ CPNext
    \/ PassFrames < MaxPassFrames /\ SPNext
    \/ PassFrames < MaxPassFrames /\ (IPImageStep \/ IPOtherStep)
    \/ IPYield \/ IPTick \/ IPFinish \/ IPTimeout

PassSpec == Init /\ [][PassNext]_vars

(***************************************************************************)
(* Claims about StoryProcessor (under SPSpec)                              *)
(***************************************************************************)
\* a step that delivers a frame to the story processor, the frame, and the
\* frames the processor pushed while handling it
SPStep == Len(sp_in') = Len(sp_in) + 1

SPFrame == sp_in'[Len(sp_in')]

SPNew == SubSeq(sp_out', Len(sp_out) + 1, Len(sp_out'))

SPTextCall == SPStep /\ SPFrame.type = "TextFrame"

\* the buffer of a text call once the fragment is appended
SPBuffered == sp_text \o SPFrame.text

\* the complete bracket pairs of a text: <<i, j>> with "<" at i, ">" at j, no
\* bracket between them and every earlier "<" closed before i
Pairs(t) ==
    {p \in (1..Len(t)) \X (1..Len(t)) :
        /\ p[1] < p[2]
        /\ t[p[1]] = "<"
        /\ t[p[2]] = ">"
        /\ \A k \in (p[1] + 1)..(p[2] - 1) : t[k] \notin {"<", ">"}
        /\ \A k \in 1..(p[1] - 1) :
             t[k] = "<" => \E m \in (k + 1)..(p[1] - 1) : t[m] = ">"}

Directive(t, p) == SubSeq(t, p[1], p[2])

Prompt(t, p) == SubSeq(t, p[1] + 1, p[2] - 1)

\* a break token in any letter case
HasBreakToken(t) == Contains(LowerStr(t), BreakLower)

Kinds(out, kind) == {n \in 1..Len(out) : out[n].frame.type = kind}

\* C1 (as claimed): on a text fragment, for every complete pair <X> of the
\* buffered text that a [break] token follows, the image request with prompt X
\* is pushed, before any story page of that call, and no story page of that
\* call contains <X> or a break token.
C1_ImageBeforePage ==
    [][SPTextCall =>
        \A p \in Pairs(SPBuffered) :
            Contains(SubSeq(SPBuffered, p[2] + 1, Len(SPBuffered)), BreakLower) =>
                /\ \E n \in Kinds(SPNew, "StoryImageFrame") :
                     /\ SPNew[n].frame.text = Prompt(SPBuffered, p)
                     /\ \A m \in Kinds(SPNew, "StoryPageFrame") : n < m
                /\ \A m \in Kinds(SPNew, "StoryPageFrame") :
                     /\ ~Contains(SPNew[m].frame.text, Directive(SPBuffered, p))
                     /\ ~HasBreakToken(SPNew[m].frame.text)
    ]_vars

\* C2 (as claimed): no story page and no prompt-for-user-input ever pushed
\* holds a complete bracket pair.
C2_NoDirectiveInPageOrPrompt ==
    \A n \in Kinds(sp_out, "StoryPageFrame") \cup Kinds(sp_out, "StoryPromptFrame") :
        Pairs(sp_out[n].frame.text) = {}

\* the "<" of a text that no ">" follows
OpenBrackets(t) ==
    {i \in 1..Len(t) : t[i] = "<" /\ \A k \in (i + 1)..Len(t) : t[k] # ">"}

IsSuffix(s, t) == Len(s) <= Len(t) /\ SubSeq(t, Len(t) - Len(s) + 1, Len(t)) = s

\* C3 (as claimed): on a text fragment, (a) a "<" still without its ">" stays in
\* the buffer with everything after it, and no image request is pushed when the
\* buffered text holds no complete pair; (b) when the buffer held an open "<"
\* and the fragment brings the first ">", exactly one image request is pushed
\* and its prompt is the text between that "<" and that ">".
C3_PartialDirectiveKept ==
    [][SPTextCall =>
        /\ OpenBrackets(SPBuffered) # {} =>
             IsSuffix(SubSeq(SPBuffered, MinOf(OpenBrackets(SPBuffered)), Len(SPBuffered)),
                      sp_text')
        /\ Pairs(SPBuffered) = {} => Kinds(SPNew, "StoryImageFrame") = {}
        /\ (OpenBrackets(sp_text) # {} /\ Contains(SPFrame.text, <<">">>)) =>
             LET i == MinOf(OpenBrackets(sp_text))
                 j == MinOf({k \in (Len(sp_text) + 1)..Len(SPBuffered) : SPBuffered[k] = ">"})
             IN  /\ Cardinality(Kinds(SPNew, "StoryImageFrame")) = 1
                 /\ \A n \in Kinds(SPNew, "StoryImageFrame") :
                      SPNew[n].frame.text = SubSeq(SPBuffered, i + 1, j - 1)
    ]_vars

\* C6 (as claimed): on the end-of-response frame the processor pushes the
\* prompt frame with the buffered text, the end frame itself, the user-turn cue
\* and the listening sound, in this order; the buffer is then empty and the call
\* raised nothing.
C6_ResponseEndSequence ==
    [][(SPStep /\ SPFrame.type = "LLMFullResponseEndFrame") =>
        /\ [n \in 1..Len(SPNew) |-> SPNew[n].frame] =
             <<StoryPromptFrame(sp_text), LLMFullResponseEndFrame,
               CueFrame("CUE_USER_TURN"), SoundFrame("listening")>>
        /\ sp_text' = EmptyStr
        /\ sp_err' = "none"
    ]_vars

\* str.strip() of a text
RECURSIVE LStrip(_)
LStrip(s) ==
    IF s # <<>> /\ Head(s) \in {" ", NL} THEN LStrip(Tail(s)) ELSE s

RECURSIVE RStrip(_)
RStrip(s) ==
    IF s # <<>> /\ s[Len(s)] \in {" ", NL} THEN RStrip(SubSeq(s, 1, Len(s) - 1)) ELSE s

Strip(s) == RStrip(LStrip(s))

\* the buffer of a text call when the page-break block is reached: what the
\* image block left of the buffered text
SPAfterImage == ImageStage(SPBuffered).text

\* the text of a page: break tokens removed, line breaks replaced
PageText(t) == ReplaceNewlines(RemoveBreaks(t))

\* the effect of a text call on the story: a page appended and pushed with the
\* assistant-turn cue after it, or nothing at all
PagePushed(page) ==
    /\ sp_story' = Append(sp_story, page)
    /\ Kinds(SPNew, "StoryPageFrame") # {}
    /\ \A m \in Kinds(SPNew, "StoryPageFrame") :
         /\ SPNew[m].frame.text = page
         /\ m = Len(SPNew) - 1
         /\ SPNew[Len(SPNew)].frame = CueFrame("CUE_ASSISTANT_TURN")

NoPagePushed ==
    /\ sp_story' = sp_story
    /\ Kinds(SPNew, "StoryPageFrame") = {}
    /\ Kinds(SPNew, "DailyTransportMessageFrame") = {}

\* C7 (as claimed): when the buffer of a text call holds a break token ([break]
\* or [Break]), a page is appended and pushed, with the assistant-turn cue, if
\* and only if the page text TRIMMED of surrounding whitespace is longer than 2
\* characters; otherwise nothing is pushed and the story is unchanged; the buffer
\* is empty after the call either way.
C7_PageIffTrimmedLong ==
    [][(SPTextCall /\ BreakSearch(SPAfterImage)) =>
        /\ IF Len(Strip(PageText(SPAfterImage))) > MinPageLen
           THEN sp_story' # sp_story /\ Kinds(SPNew, "StoryPageFrame") # {}
           ELSE NoPagePushed
        /\ sp_text' = EmptyStr
    ]_vars

\* C7 (amended): as C7, with the length taken of the page text as it is, not
\* trimmed; the page appended and pushed is that text.
C7_PageIffLong ==
    [][(SPTextCall /\ BreakSearch(SPAfterImage)) =>
        /\ IF Len(PageText(SPAfterImage)) > MinPageLen
           THEN PagePushed(PageText(SPAfterImage))
           ELSE NoPagePushed
        /\ sp_text' = EmptyStr
    ]_vars

\* C7's case: a page of three characters, one when trimmed, was pushed, and a
\* later break token with an empty page text pushed nothing and left the buffer
\* empty.
C7_Witness ==
    /\ Len(sp_in) = 3
    /\ sp_in[1].text = <<" ", "a", " ">>
    /\ sp_in[2].text = BreakLower
    /\ sp_in[3].text = BreakCapital
    /\ sp_story = << <<" ", "a", " ">> >>
    /\ Cardinality(Kinds(sp_out, "StoryPageFrame")) = 1
    /\ Len(sp_out) = 2
    /\ sp_text = EmptyStr

\* C8 (as claimed): a break token in any letter case triggers the page-break
\* handling: the buffer is emptied, the page (when long enough) is the buffered
\* text without its break tokens, and no pushed page holds a break token.
C8_BreakAnyCase ==
    [][(SPTextCall /\ HasBreakToken(SPAfterImage)) =>
        /\ sp_text' = EmptyStr
        /\ IF Len(PageText(SPAfterImage)) > MinPageLen
           THEN PagePushed(PageText(SPAfterImage))
           ELSE NoPagePushed
        /\ \A m \in Kinds(SPNew, "StoryPageFrame") : ~HasBreakToken(SPNew[m].frame.text)
    ]_vars

(***************************************************************************)
(* Claims about SentenceAggregator (under SASpec)                          *)
(***************************************************************************)
SATextOnly == \A n \in 1..Len(sa_in) : sa_in[n].type = "TextFrame"

\* all the text received, and all the text pushed, so far
Received(in) == Concat([n \in 1..Len(in) |-> in[n].text])

Emitted(out) ==
    Concat([n \in 1..Len(out) |->
              IF out[n].frame.type = "TextFrame" THEN out[n].frame.text ELSE <<>>])

OneTerminator == SATextOnly /\ Cardinality(TermIdx(Received(sa_in))) = 1

\* C4 (as claimed): once text fragments whose concatenation holds exactly one
\* terminator are received, exactly one unit has been pushed, it is the
\* concatenation of all the fragments, and the buffer is empty.
C4_OneTerminatorWholeText ==
    OneTerminator =>
        /\ Len(sa_out) = 1
        /\ sa_out[1].frame.text = Received(sa_in)
        /\ sa_aggregation = EmptyStr

\* the fragment that brought the terminator
TerminatorFragment ==
    sa_in[CHOOSE n \in 1..Len(sa_in) : TermIdx(sa_in[n].text) # {}].text

\* the terminator is the last character received, and no line break stands
\* before it in its own fragment
TerminatorClosesText ==
    /\ Received(sa_in)[Len(Received(sa_in))] \in Terminators
    /\ \A k \in 1..MinOf(TermIdx(TerminatorFragment)) : TerminatorFragment[k] # NL

\* C4 (amended): once text fragments whose concatenation holds exactly one
\* terminator are received, exactly one unit has been pushed and it ends with
\* the terminator; the unit is the concatenation of all the fragments and the
\* buffer is empty exactly when the terminator is the last character received
\* and no line break stands before it in its own fragment.
C4_OneTerminatorOneUnit ==
    OneTerminator =>
        /\ Len(sa_out) = 1
        /\ sa_out[1].frame.type = "TextFrame"
        /\ sa_out[1].frame.text # <<>>
        /\ sa_out[1].frame.text[Len(sa_out[1].frame.text)] \in Terminators
        /\ (sa_out[1].frame.text = Received(sa_in) /\ sa_aggregation = EmptyStr)
             <=> TerminatorClosesText

\* C4's case: "a", "a" and "a." were received and the one unit is "aaa."
C4_Witness ==
    /\ OneTerminator
    /\ Len(sa_in) = 3
    /\ sa_in[3].text = <<"a", ".">>
    /\ Len(sa_out) = 1
    /\ sa_out[1].frame.text = <<"a", "a", "a", ".">>
    /\ sa_aggregation = EmptyStr

SAStep == Len(sa_in') = Len(sa_in) + 1

SAFrame == sa_in'[Len(sa_in')]

SANew == SubSeq(sa_out', Len(sa_out) + 1, Len(sa_out'))

\* C5 (as claimed): a fragment without terminator pushes nothing and is added
\* to the buffer; a fragment that ends with a terminator pushes exactly one
\* unit, and this unit is all the text received since the last unit pushed (the
\* units pushed so far and this one make up the text received).
C5_UnitIsTextSinceLastUnit ==
    [][(SAStep /\ SAFrame.type = "TextFrame") =>
        /\ TermIdx(SAFrame.text) = {} =>
             /\ SANew = <<>>
             /\ sa_aggregation' = sa_aggregation \o SAFrame.text
        /\ (SAFrame.text # <<>> /\ SAFrame.text[Len(SAFrame.text)] \in Terminators) =>
             /\ Len(SANew) = 1
             /\ SANew[1].frame.type = "TextFrame"
             /\ Emitted(sa_out') = Received(sa_in')
    ]_vars

SAFrames(out) == [n \in 1..Len(out) |-> out[n].frame]

\* C11: on a frame that is not text, a non-empty buffer is pushed once as a unit,
\* before the frame itself, and is empty afterwards; with an empty buffer the
\* frame alone is pushed.
C11_FlushOnControl ==
    [][(SAStep /\ SAFrame.type # "TextFrame") =>
        /\ SAFrames(SANew) =
             IF sa_aggregation # EmptyStr
             THEN <<TextFrame(sa_aggregation), SAFrame>>
             ELSE <<SAFrame>>
        /\ sa_aggregation' = EmptyStr
    ]_vars

\* C11's case: "a" was buffered, the first control frame flushed it, the second
\* pushed nothing but itself
C11_Witness ==
    /\ Len(sa_in) = 3
    /\ sa_in[1] = TextFrame(<<"a">>)
    /\ sa_in[2] = ControlFrame
    /\ sa_in[3] = ControlFrame
    /\ SAFrames(sa_out) = <<TextFrame(<<"a">>), ControlFrame, ControlFrame>>
    /\ sa_aggregation = EmptyStr

SAManyTerminators ==
    SAStep /\ SAFrame.type = "TextFrame" /\ Cardinality(TermIdx(SAFrame.text)) >= 2

\* C13 (as claimed): a fragment with two or more terminators pushes exactly one
\* unit, which ends at the fragment's first terminator; the text after the first
\* terminator stays in the buffer.
C13_UnitEndsAtFirstTerminator ==
    [][SAManyTerminators =>
        LET f  == SAFrame.text
            q1 == MinOf(TermIdx(f))
        IN  /\ Len(SANew) = 1
            /\ SANew[1].frame = TextFrame(sa_aggregation \o SubSeq(f, 1, q1))
            /\ sa_aggregation' = SubSeq(f, q1 + 1, Len(f))
    ]_vars

\* the line of a fragment that holds its first terminator: <<first, last>>
TerminatorLine(f) ==
    LET q1 == MinOf(TermIdx(f))
        breaks == {i \in 1..Len(f) : f[i] = NL}
    IN  << IF \E i \in breaks : i < q1
           THEN MaxOf({i \in breaks : i < q1}) + 1 ELSE 1,
           IF \E i \in breaks : i > q1
           THEN MinOf({i \in breaks : i > q1}) - 1 ELSE Len(f) >>

\* C13 (amended): a fragment with two or more terminators pushes exactly one
\* unit, which ends at the LAST terminator of the fragment's line that holds
\* the first one: the unit is the buffered text followed by that line up to its
\* last terminator, and only the rest of that line stays in the buffer.
C13_UnitEndsAtLastTerminator ==
    [][SAManyTerminators =>
        LET f    == SAFrame.text
            line == TerminatorLine(f)
            last == MaxOf({i \in TermIdx(f) : line[1] <= i /\ i <= line[2]})
        IN  /\ Len(SANew) = 1
            /\ SANew[1].frame =
                 TextFrame(sa_aggregation \o SubSeq(f, line[1], last))
            /\ sa_aggregation' = SubSeq(f, last + 1, line[2])
    ]_vars

\* C13's case: "a" buffered, then ".a!": the one unit is "a.a!", nothing stays
C13_Witness ==
    /\ Len(sa_in) = 2
    /\ sa_in[1] = TextFrame(<<"a">>)
    /\ sa_in[2] = TextFrame(<<".", "a", "!">>)
    /\ SAFrames(sa_out) = <<TextFrame(<<"a", ".", "a", "!">>)>>
    /\ sa_aggregation = EmptyStr

\* C14 (as claimed): the units pushed so far followed by the buffer are the text
\* received so far.
C14_NoTextLost ==
    Emitted(sa_out) \o sa_aggregation = Received(sa_in)

IsPrefix(s, t) == Len(s) <= Len(t) /\ SubSeq(t, 1, Len(s)) = s

\* C15 (as claimed): when a unit is pushed, its text is no longer in the
\* buffer: the buffer is empty, or already has the value it has after the call,
\* or is not the start of the unit.
C15_BufferUpdatedBeforePush ==
    [][SAStep =>
        \A n \in 1..Len(SANew) :
            SANew[n].frame.type = "TextFrame" =>
                \/ SANew[n].buf = EmptyStr
                \/ SANew[n].buf = sa_aggregation'
                \/ ~IsPrefix(SANew[n].buf, SANew[n].frame.text)
    ]_vars

\* C20: the buffer never holds a terminator, and every unit pushed for a text
\* fragment ends with a terminator.
C20_BufferHasNoTerminator ==
    [][/\ TermIdx(sa_aggregation') = {}
       /\ (SAStep /\ SAFrame.type = "TextFrame") =>
            \A n \in 1..Len(SANew) :
                /\ SANew[n].frame.type = "TextFrame"
                /\ SANew[n].frame.text # <<>>
                /\ SANew[n].frame.text[Len(SANew[n].frame.text)] \in Terminators
    ]_vars

\* C20's case: "a." was pushed whole, "!a" pushed "!" and kept "a", and a control
\* frame flushed "a", a unit without terminator
C20_Witness ==
    /\ Len(sa_in) = 3
    /\ sa_in[1] = TextFrame(<<"a", ".">>)
    /\ sa_in[2] = TextFrame(<<"!", "a">>)
    /\ sa_in[3] = ControlFrame
    /\ SAFrames(sa_out) =
         <<TextFrame(<<"a", ".">>), TextFrame(<<"!">>), TextFrame(<<"a">>), ControlFrame>>
    /\ sa_aggregation = EmptyStr

(***************************************************************************)
(* Claims about ConversationProcessor (under CPSpec)                       *)
(***************************************************************************)
CPStep == Len(cp_in') = Len(cp_in) + 1

CPFrame == cp_in'[Len(cp_in')]

\* the speech fragments received since the last speaker-stopped signal
LastStop(in) ==
    MaxOf({0} \cup {n \in 1..Len(in) : in[n].type = "UserStoppedSpeakingFrame"})

Spoken(in) ==
    LET from == LastStop(in)
        idx  == {n \in (from + 1)..Len(in) : in[n].type = "TranscriptionFrame"}
        nth[k \in 1..Cardinality(idx)] ==
            CHOOSE n \in idx : Cardinality({m \in idx : m <= n}) = k
    IN  [k \in 1..Cardinality(idx) |-> in[nth[k]]]

\* "<timestamp> - <speaker_id>: <text>" for each fragment, one per line
RECURSIVE Rendering(_, _)
Rendering(frames, k) ==
    IF k = 0 THEN <<>>
    ELSE (IF k = 1 THEN <<>> ELSE Rendering(frames, k - 1) \o <<NL>>)
         \o frames[k].timestamp \o <<" ", "-", " ">>
         \o frames[k].user_id \o <<":", " ">> \o frames[k].text

\* C9: a speaker-stopped signal after k >= 1 speech fragments appends exactly
\* one turn to the history, with role "user" and the k fragments rendered in
\* arrival order, one per line; the entry buffer is empty afterwards and the
\* updated history is pushed exactly once.
C9_OneTurnPerStop ==
    [][(CPStep /\ CPFrame.type = "UserStoppedSpeakingFrame" /\ Len(Spoken(cp_in)) >= 1) =>
        /\ cp_messages' = Append(cp_messages,
              [role |-> "user",
               content |-> Rendering(Spoken(cp_in), Len(Spoken(cp_in)))])
        /\ cp_aggregation' = <<>>
        /\ cp_out' = Append(cp_out, Pushed(LLMMessagesFrame(cp_messages'), <<>>))
    ]_vars

\* C9's case: two speech fragments, then the signal: one turn of two lines
C9_Witness ==
    /\ Len(cp_in) = 3
    /\ cp_in[1] = TranscriptionFrame(<<"A">>, <<"h", "i">>, <<"1">>)
    /\ cp_in[2] = TranscriptionFrame(<<"B">>, <<"y", "o">>, <<"2">>)
    /\ cp_in[3] = UserStoppedSpeakingFrame
    /\ Len(cp_messages) = 1
    /\ cp_messages[1].role = "user"
    /\ cp_messages[1].content =
         <<"1", " ", "-", " ", "A", ":", " ", "h", "i", NL,
           "2", " ", "-", " ", "B", ":", " ", "y", "o">>
    /\ cp_aggregation = <<>>
    /\ Len(cp_out) = 1
    /\ cp_out[1].frame = LLMMessagesFrame(cp_messages)

(***************************************************************************)
(* Claims about StoryImageProcessor (under IPSpec)                         *)
(***************************************************************************)
\* the images among the pushed frames
ImagesPushed ==
    LET idx == Kinds(ip_out, "ImageFrame")
        nth[k \in 1..Cardinality(idx)] ==
            CHOOSE n \in idx : Cardinality({m \in idx : m <= n}) = k
    IN  [k \in 1..Cardinality(idx) |-> ip_out[nth[k]].frame]

Heard(in) ==
    SelectSeq(SubSeq(in, 1, LastStop(in)), LAMBDA f : f.type = "TranscriptionFrame")

\* C16: the entry buffer is empty at every push of the history, and, pushes
\* cancelled or not, the turns of the history hold each speech fragment received
\* before the last speaker-stopped signal exactly once, in arrival order.
C16_ResetBeforePush ==
    /\ \A n \in 1..Len(cp_out) :
          cp_out[n].frame.type = "LLMMessagesFrame" => cp_out[n].buf = <<>>
    /\ JoinLines([k \in 1..Len(cp_messages) |-> cp_messages[k].content])
         = Rendering(Heard(cp_in), Len(Heard(cp_in)))

\* C16's case: the push of the first turn was cancelled before the frame went
\* down, and the second signal appended the second fragment alone
C16_Witness ==
    /\ Len(cp_in) = 4
    /\ cp_in[1] = TranscriptionFrame(<<"A">>, <<"h", "i">>, <<"1">>)
    /\ cp_in[2] = UserStoppedSpeakingFrame
    /\ cp_in[3] = TranscriptionFrame(<<"B">>, <<"y", "o">>, <<"2">>)
    /\ cp_in[4] = UserStoppedSpeakingFrame
    /\ Len(cp_messages) = 2
    /\ cp_messages[2].content = <<"2", " ", "-", " ", "B", ":", " ", "y", "o">>
    /\ Len(cp_out) = 1
    /\ cp_out[1].frame = LLMMessagesFrame(cp_messages)

\* C17: the history only grows at its end; a speaker-stopped signal after at
\* least one speech fragment adds exactly one turn, every other frame leaves the
\* history as it is, and a speaker-stopped signal with no speech fragment
\* pushes nothing.
C17_HistoryAppendOnly ==
    [][/\ IsPrefix(cp_messages, cp_messages')
       /\ CPStep =>
            IF CPFrame.type = "UserStoppedSpeakingFrame" /\ Len(Spoken(cp_in)) >= 1
            THEN Len(cp_messages') = Len(cp_messages) + 1
            ELSE /\ cp_messages' = cp_messages
                 /\ CPFrame.type = "UserStoppedSpeakingFrame" => cp_out' = cp_out
    ]_vars

\* C17's case: a signal with nothing spoken, a speech fragment, a message
\* batch, a signal: one turn, pushed once
C17_Witness ==
    /\ Len(cp_in) = 4
    /\ cp_in[1] = UserStoppedSpeakingFrame
    /\ cp_in[2].type = "TranscriptionFrame"
    /\ cp_in[3].type = "LLMMessagesFrame"
    /\ cp_in[4] = UserStoppedSpeakingFrame
    /\ Len(cp_messages) = 1
    /\ Len(cp_out) = 1

\* the final min(n, length) turns of a history
LastTurns(history, n) ==
    SubSeq(history, Len(history) - MinOf({n, Len(history)}) + 1, Len(history))

\* a step that is an accessor call
AccessorCall == cp_ret' # cp_ret /\ ~cp_ret'.edited

\* C12 (as claimed): get_last_n_entries(n) returns the final min(n, length)
\* turns of the history, get_conversation_history returns all turns, and no
\* step other than the processing of a frame changes the history.
C12_AccessorsReadOnly ==
    [][/\ (AccessorCall /\ cp_ret'.call = "get_last_n_entries") =>
            Returned' = LastTurns(cp_messages, cp_ret'.n)
       /\ (AccessorCall /\ cp_ret'.call = "get_conversation_history") =>
            Returned' = cp_messages
       /\ cp_in' = cp_in => cp_messages' = cp_messages
    ]_vars

(***************************************************************************)
(* Claims about the story and about frames passed through                  *)
(***************************************************************************)
\* the texts of the story pages pushed, in order
PageTexts(out) ==
    LET pages == SelectSeq(out, LAMBDA p : p.frame.type = "StoryPageFrame")
    IN  [k \in 1..Len(pages) |-> pages[k].frame.text]

\* C18: the story only grows at its end; after every call it is the sequence of
\* the texts of the story pages pushed so far; a frame that is not text leaves
\* it as it is.
C18_StoryIsPagesPushed ==
    [][/\ IsPrefix(sp_story, sp_story')
       /\ sp_story' = PageTexts(sp_out')
       /\ (SPStep /\ SPFrame.type # "TextFrame") => sp_story' = sp_story
    ]_vars

\* C18's case: two pages pushed, then the end of the response
C18_Witness ==
    /\ Len(sp_in) = 3
    /\ sp_in[3] = LLMFullResponseEndFrame
    /\ Len(sp_story) = 2
    /\ PageTexts(sp_out) = sp_story

\* the step pushed exactly the frame, after everything pushed before
Forwarded(frame, out, out2) ==
    /\ Len(out2) = Len(out) + 1
    /\ SubSeq(out2, 1, Len(out)) = out
    /\ out2[Len(out2)].frame = frame

PassStepIP == Len(ip_in') = Len(ip_in) + 1

PassFrameIP == ip_in'[Len(ip_in')]

\* C19: a frame of a type the processor does not handle is pushed once, as it
\* is, after everything the processor pushed before, and leaves the buffers,
\* the story and the history as they are.
C19_PassThrough ==
    [][/\ (CPStep /\ CPFrame.type \notin
              {"UserStoppedSpeakingFrame", "TranscriptionFrame", "LLMMessagesFrame"}) =>
            /\ Forwarded(CPFrame, cp_out, cp_out')
            /\ cp_aggregation' = cp_aggregation
            /\ cp_messages' = cp_messages /\ sp_story' = sp_story
       /\ (PassStepIP /\ PassFrameIP.type # "StoryImageFrame") =>
            /\ Forwarded(PassFrameIP, ip_out, ip_out')
            /\ cp_messages' = cp_messages /\ sp_story' = sp_story
       /\ (SPStep /\ SPFrame.type \notin
              {"UserStoppedSpeakingFrame", "TextFrame", "LLMFullResponseEndFrame"}) =>
            /\ Forwarded(SPFrame, sp_out, sp_out')
            /\ sp_text' = sp_text
            /\ cp_messages' = cp_messages /\ sp_story' = sp_story
    ]_vars

\* C19's case: each of the three processors has been given one frame it does
\* not handle and has pushed it
C19_Witness ==
    /\ cp_in = <<ControlFrame>> /\ Len(cp_out) = 1 /\ cp_out[1].frame = ControlFrame
    /\ ip_in = <<ControlFrame>> /\ Len(ip_out) = 1 /\ ip_out[1].frame = ControlFrame
    /\ sp_in = <<ControlFrame>> /\ Len(sp_out) = 1 /\ sp_out[1].frame = ControlFrame

====
